---- MODULE Spec2Model ----
(***************************************************************************)
(* Live session panels of the audio tools (src/App.tsx): VoiceChat and     *)
(* VisualAssistant, and the request/response panels (Chatbot, TextTools,   *)
(* ImageTools, VideoTools, TranslateTool).  One panel instance is mounted  *)
(* per behaviour; its React state and refs are the variables below, the    *)
(* environment (remote sessions, device streams, audio contexts, pending   *)
(* awaits, requests in flight) is kept per start attempt.  Every handler   *)
(* is one action; an await splits a handler into the part before it and    *)
(* its continuation.                                                       *)
(***************************************************************************)
EXTENDS Integers, Sequences, FiniteSets, TLC

\* ---------------------------------------------------------------- bounds
MaxSessions == 2   \* start attempts per behaviour
MaxMsgs == 2       \* server messages delivered per behaviour
MaxClock == 2      \* ticks of the output context's clock
MaxDur == 2        \* longest audio segment, in clock ticks

Sessions == 1..MaxSessions

VARIABLES
  panel,                  \* which component is rendered ("voice", "visual", "chat", ...)
  mounted,                \* the component has not been unmounted
  isLive,                 \* useState isLive
  error,                  \* useState error ("null" or a message)
  transcriptions,         \* useState transcriptions (VoiceChat)
  pendingTx,              \* setTranscriptions updaters queued for the next render
  sessionPromiseRef,      \* 0 = null, else the attempt whose promise it holds
  streamRef,              \* 0 = null, else the attempt whose stream it holds
  audioContextRef,        \* 0 = null, else the attempt whose capture context
  scriptProcessorRef,     \* 0 = null, else the attempt whose processor node
  sourceRef,              \* 0 = null, else the attempt whose source node
  outputAudioContextRef,  \* 0 = null, else the attempt whose output context
  nextStartTimeRef,       \* playback offset
  playingSources,         \* set of segment indices (AudioBufferSourceNodes)
  intervalRef,            \* 0 = null, else the attempt whose frame timer
  nsess,                  \* start attempts made so far
  ws,                     \* attempt -> state of its remote connection
  closeReq,               \* attempt -> a close() is chained on its promise
  gum,                    \* attempt -> state of its getUserMedia call
  track,                  \* attempt -> state of the tracks of its stream
  capCtx,                 \* attempt -> state of its capture AudioContext
  outCtx,                 \* attempt -> state of its output AudioContext
  procConn,               \* attempt -> its script processor is connected
  srcConn,                \* attempt -> its stream source node is connected
  timer,                  \* attempt -> its frame interval is active
  curIn,                  \* attempt -> currentInputTranscription (closure)
  curOut,                 \* attempt -> currentOutputTranscription (closure)
  segs,                   \* inbound audio segments, in arrival order
  nmsg,                   \* server messages delivered so far
  clock,                  \* currentTime of the context in outputAudioContextRef
  isLoading,              \* useState isLoading / isLoadingTranslation
  inFlight,               \* remote requests sent and not yet settled
  input,                  \* the input / prompt / sourceText is not blank
  isRecording,            \* useState isRecording (TranslateTool)
  targetLang,             \* useState targetLang (TranslateTool)
  activeTool,             \* useState activeTool (ImageTools, VideoTools)
  framesSent,             \* audio and video frames handed to a remote session
  inputData,              \* samples of the frame given to onaudioprocess
  pcmData,                \* the Int16Array built from it (<<>> before)
  outstanding,            \* the requests in flight, with what each call holds
  sourceText,             \* useState sourceText (TranslateTool), 0 = ''
  result,                 \* the result state of the panel, <<>> = none
  lastReq,                \* the last translation requested since the clearing
  messages,               \* useState messages (Chatbot)
  chatRef                 \* useRef chatRef (Chatbot)

vars == <<panel, mounted, isLive, error, transcriptions, pendingTx, sessionPromiseRef,
          streamRef, audioContextRef, scriptProcessorRef, sourceRef,
          outputAudioContextRef, nextStartTimeRef, playingSources, intervalRef,
          nsess, ws, closeReq, gum, track, capCtx, outCtx, procConn, srcConn,
          timer, curIn, curOut, segs, nmsg, clock, isLoading, inFlight, input,
          isRecording, targetLang, activeTool, framesSent, inputData, pcmData,
          outstanding, sourceText, result, lastReq, messages, chatRef>>

\* the captured frame and its encoding
frameVars == <<inputData, pcmData>>

\* state of the request/response panels
reqVars == <<isLoading, inFlight, input, isRecording, targetLang, activeTool,
             outstanding, sourceText, result, lastReq, messages, chatRef>>

\* state of the component: useState values and refs
compVars == <<isLive, error, transcriptions, pendingTx, sessionPromiseRef, streamRef,
              audioContextRef, scriptProcessorRef, sourceRef,
              outputAudioContextRef, nextStartTimeRef, playingSources,
              intervalRef>>

Max(a, b) == IF a >= b THEN a ELSE b

\* every hook at its initial value, nothing requested from the environment
Unstarted ==
  /\ mounted = TRUE
  /\ isLive = FALSE
  /\ error = "null"
  /\ transcriptions = <<>>
  /\ pendingTx = <<>>
  /\ sessionPromiseRef = 0
  /\ streamRef = 0
  /\ audioContextRef = 0
  /\ scriptProcessorRef = 0
  /\ sourceRef = 0
  /\ outputAudioContextRef = 0
  /\ nextStartTimeRef = 0
  /\ playingSources = {}
  /\ intervalRef = 0
  /\ nsess = 0
  /\ ws = [s \in Sessions |-> "none"]
  /\ closeReq = [s \in Sessions |-> FALSE]
  /\ gum = [s \in Sessions |-> "none"]
  /\ track = [s \in Sessions |-> "none"]
  /\ capCtx = [s \in Sessions |-> "none"]
  /\ outCtx = [s \in Sessions |-> "none"]
  /\ procConn = [s \in Sessions |-> FALSE]
  /\ srcConn = [s \in Sessions |-> FALSE]
  /\ timer = [s \in Sessions |-> FALSE]
  /\ curIn = [s \in Sessions |-> <<>>]
  /\ curOut = [s \in Sessions |-> <<>>]
  /\ segs = <<>>
  /\ nmsg = 0
  /\ clock = 0
  /\ isLoading = FALSE
  /\ inFlight = 0
  /\ input = FALSE
  /\ isRecording = FALSE
  /\ targetLang = "es"
  /\ activeTool = "generate"
  /\ framesSent = 0
  /\ outstanding = <<>>
  /\ sourceText = 0
  /\ result = <<>>
  /\ lastReq = <<>>
  /\ messages = <<>>
  /\ chatRef = "none"

\* no frame has been captured
NoFrame == inputData = <<>> /\ pcmData = <<>>

Init == panel \in {"voice", "visual"} /\ Unstarted /\ NoFrame

\* ------------------------------------------------------ server messages
\* LiveServerMessage shapes delivered to onmessage: optional transcription
\* fragments, the turn-complete marker, an inline audio payload (its decoded
\* duration, 0 = none) and the interrupted marker.  A segment of segs keeps
\* st (decoding, playing, stopped, ended), dur, intr (its message's marker),
\* ctx (the context captured by its handler) and start (the time passed to
\* source.start, -1 before).
Msg(i, o, t, a, x) == [inT |-> i, outT |-> o, turn |-> t, audio |-> a, intr |-> x]

\* messages that carry audio or the interrupted marker
AudioShapes ==
  { Msg(FALSE, FALSE, FALSE, 0, TRUE), Msg(FALSE, FALSE, FALSE, 1, TRUE) }
  \cup { Msg(FALSE, FALSE, FALSE, d, FALSE) : d \in 1..MaxDur }

\* messages that carry transcription fragments or the turn-complete marker
TextShapes ==
  { Msg(TRUE, FALSE, FALSE, 0, FALSE), Msg(FALSE, TRUE, FALSE, 0, FALSE),
    Msg(FALSE, FALSE, TRUE, 0, FALSE), Msg(FALSE, TRUE, TRUE, 0, FALSE) }

\* ------------------------------------------------------------ VoiceChat
\* playingSources.forEach(source => source.stop())
StopSourcesSkipped(sg, set) == sg

StopSources(sg, set) ==
  [k \in DOMAIN sg |-> IF k \in set THEN [sg[k] EXCEPT !.st = "stopped"] ELSE sg[k]]

\* if (ctxRef.current?.state !== 'closed') ctxRef.current?.close()
CloseCtx(ctx, ref) ==
  IF ref # 0 /\ ctx[ref] # "closed" THEN [ctx EXCEPT ![ref] = "closed"] ELSE ctx

\* streamRef.current.getTracks().forEach(track => track.stop())
StopTracksSkipped(trk, ref) == trk

StopTracks(trk, ref) ==
  IF ref # 0 THEN [trk EXCEPT ![ref] = "stopped"] ELSE trk

\* sessionPromiseRef.current.then(session => session.close()): the close runs
\* as soon as the promise is resolved, at once when it already is
ChainClose(w, ref) ==
  IF ref # 0 /\ w[ref] = "open" THEN [w EXCEPT ![ref] = "closing"] ELSE w

\* stopConversation, run on the connection states w the caller leaves
stopConversation(w) ==
  /\ ws' = ChainClose(w, sessionPromiseRef)
  /\ closeReq' = IF sessionPromiseRef # 0
                   THEN [closeReq EXCEPT ![sessionPromiseRef] = TRUE]
                   ELSE closeReq
  /\ sessionPromiseRef' = 0
  /\ track' = StopTracks(track, streamRef)
  /\ streamRef' = 0
  /\ procConn' = IF scriptProcessorRef # 0
                   THEN [procConn EXCEPT ![scriptProcessorRef] = FALSE]
                   ELSE procConn
  /\ srcConn' = IF sourceRef # 0 THEN [srcConn EXCEPT ![sourceRef] = FALSE] ELSE srcConn
  /\ capCtx' = CloseCtx(capCtx, audioContextRef)
  /\ outCtx' = CloseCtx(outCtx, outputAudioContextRef)
  /\ segs' = StopSources(segs, playingSources)
  /\ playingSources' = {}
  /\ nextStartTimeRef' = 0
  /\ isLive' = FALSE
  /\ UNCHANGED <<audioContextRef, scriptProcessorRef, sourceRef, outputAudioContextRef>>

\* what no VoiceChat lifecycle handler touches
voiceRest == <<panel, reqVars, framesSent, frameVars, intervalRef, timer, curIn, curOut, nmsg, clock>>

\* startConversation after its guard, g being what it leaves of the
\* getUserMedia calls; thrown: the constructor of the client or of the
\* output context throws before the connection is requested
startConversationWith(thrown, g) ==
  IF thrown
    THEN /\ error' = "exception"
         /\ transcriptions' = <<>>
         /\ pendingTx' = <<>>
         /\ stopConversation(ws)
         /\ UNCHANGED <<voiceRest, mounted, nsess, gum>>
    ELSE /\ nsess < MaxSessions
         /\ isLive' = TRUE
         /\ error' = "null"
         /\ transcriptions' = <<>>
         /\ pendingTx' = <<>>
         /\ nsess' = nsess + 1
         /\ outputAudioContextRef' = nsess + 1
         /\ outCtx' = [outCtx EXCEPT ![nsess + 1] = "running"]
         /\ clock' = 0
         /\ sessionPromiseRef' = nsess + 1
         /\ ws' = [ws EXCEPT ![nsess + 1] = "connecting"]
         /\ gum' = g
         /\ UNCHANGED <<panel, reqVars, framesSent, frameVars, mounted, streamRef, audioContextRef, scriptProcessorRef,
                        sourceRef, nextStartTimeRef, playingSources, intervalRef,
                        closeReq, track, capCtx, procConn, srcConn, timer,
                        curIn, curOut, segs, nmsg>>

\* a start that asks for the microphone before it connects
startConversationAcquiresFirst(thrown) ==
  startConversationWith(thrown, [gum EXCEPT ![nsess + 1] = "pending"])

\* startConversation asks for no device: getUserMedia is called by onopen
startConversationBody(thrown) == startConversationWith(thrown, gum)

\* startConversation: if (isLive) return; ...
startConversation(thrown) ==
  IF isLive THEN UNCHANGED vars ELSE startConversationBody(thrown)

\* callbacks.onopen up to its await, then the connect promise resolves and
\* a close chained on it by an earlier stop runs
VoiceOnOpen(s) ==
  /\ panel = "voice"
  /\ ws[s] = "connecting"
  /\ gum' = [gum EXCEPT ![s] = "pending"]
  /\ ws' = [ws EXCEPT ![s] = IF closeReq[s] THEN "aborted" ELSE "open"]
  /\ UNCHANGED <<panel, reqVars, framesSent, frameVars, mounted, compVars, nsess, closeReq, track, capCtx, outCtx,
                 procConn, srcConn, timer, curIn, curOut, segs, nmsg, clock>>

\* onopen after await getUserMedia resolved
VoiceGumGranted(s) ==
  /\ panel = "voice"
  /\ gum[s] = "pending"
  /\ gum' = [gum EXCEPT ![s] = "granted"]
  /\ streamRef' = s
  /\ track' = [track EXCEPT ![s] = "live"]
  /\ audioContextRef' = s
  /\ capCtx' = [capCtx EXCEPT ![s] = "running"]
  /\ sourceRef' = s
  /\ scriptProcessorRef' = s
  /\ srcConn' = [srcConn EXCEPT ![s] = TRUE]
  /\ procConn' = [procConn EXCEPT ![s] = TRUE]
  /\ UNCHANGED <<panel, reqVars, framesSent, frameVars, mounted, isLive, error, transcriptions, pendingTx, sessionPromiseRef,
                 outputAudioContextRef, nextStartTimeRef, playingSources, intervalRef,
                 nsess, ws, closeReq, outCtx, timer, curIn, curOut, segs, nmsg, clock>>

\* await getUserMedia rejected: onopen's promise rejects, nobody handles it
VoiceGumDenied(s) ==
  /\ panel = "voice"
  /\ gum[s] = "pending"
  /\ gum' = [gum EXCEPT ![s] = "denied"]
  /\ UNCHANGED <<panel, reqVars, framesSent, frameVars, mounted, compVars, nsess, ws, closeReq, track, capCtx, outCtx,
                 procConn, srcConn, timer, curIn, curOut, segs, nmsg, clock>>

\* callbacks.onerror
VoiceOnError(s) ==
  /\ panel = "voice"
  /\ ws[s] \in {"connecting", "open", "closing", "aborted"}
  /\ error' = "Live session error"
  /\ stopConversation([ws EXCEPT ![s] = "failed"])
  /\ UNCHANGED <<voiceRest, mounted, transcriptions, pendingTx, nsess, gum>>

\* an onclose handler that connects again
ClosedReconnects(w, s) == [w EXCEPT ![s] = "connecting"]

\* the connection of attempt s is gone when onclose runs; the handler asks
\* for no other
Closed(w, s) == [w EXCEPT ![s] = "closed"]

\* callbacks.onclose
VoiceOnClose(s) ==
  /\ panel = "voice"
  /\ ws[s] \in {"open", "closing", "aborted", "failed"}
  /\ stopConversation(Closed(ws, s))
  /\ UNCHANGED <<voiceRest, mounted, error, transcriptions, pendingTx, nsess, gum>>

\* the interrupted branch of onmessage
InterruptedClearKeepsOffset(sg, set) ==
  /\ segs' = StopSources(sg, set)
  /\ playingSources' = {}
  /\ nextStartTimeRef' = nextStartTimeRef

InterruptedClear(sg, set) ==
  /\ segs' = StopSources(sg, set)
  /\ playingSources' = {}
  /\ nextStartTimeRef' = 0

\* currentInputTranscription = ''; currentOutputTranscription = ''
ResetBufferSkipped(buf, s) == buf

ResetBuffer(buf, s) == [buf EXCEPT ![s] = <<>>]

\* [...prev, entry]
AppendTurnReplaces(tx, e) == <<e>>

AppendTurn(tx, e) == Append(tx, e)

\* the entry the updater prev => [...prev, {user, model}] of attempt s builds
\* when it is called: it reads the closure's buffers at that moment
UpdaterEntry(s) == [user |-> curIn[s], model |-> curOut[s]]

\* a queued updater may be called inside setTranscriptions only when no
\* update of the hook is pending; otherwise it is called by the next render
EagerChoices == IF pendingTx = <<>> THEN BOOLEAN ELSE {FALSE}

\* setTranscriptions(prev => [...prev, {user, model}]) called with the buffers
\* holding i and o; on an unmounted component it is ignored.  A queued
\* updater keeps the attempt whose closure it reads, and user, model: the
\* buffers at the call
SetTranscriptions(eager, s, i, o) ==
  IF ~mounted
    THEN UNCHANGED <<transcriptions, pendingTx>>
    ELSE IF eager
      THEN /\ transcriptions' = AppendTurn(transcriptions, [user |-> i, model |-> o])
           /\ pendingTx' = pendingTx
      ELSE /\ pendingTx' = Append(pendingTx, [sess |-> s, user |-> i, model |-> o])
           /\ transcriptions' = transcriptions

\* callbacks.onmessage up to await decodeAudioData, or to its end when the
\* message carries no audio; fragment texts are the message's number.  The
\* await is a suspension point: other handlers, the clock and the decodes
\* of other messages may run before the continuation VoiceDecoded.
VoiceOnMessage(s, m) ==
  LET n == nmsg + 1
      in1 == IF m.inT THEN Append(curIn[s], n) ELSE curIn[s]
      out1 == IF m.outT THEN Append(curOut[s], n) ELSE curOut[s]
  IN
  /\ panel = "voice"
  /\ ws[s] \in {"open", "closing"}
  /\ nmsg < MaxMsgs
  /\ nmsg' = n
  /\ IF m.turn
       THEN /\ \E eager \in EagerChoices : SetTranscriptions(eager, s, in1, out1)
            /\ curIn' = ResetBuffer([curIn EXCEPT ![s] = in1], s)
            /\ curOut' = ResetBuffer([curOut EXCEPT ![s] = out1], s)
       ELSE /\ UNCHANGED <<transcriptions, pendingTx>>
            /\ curIn' = [curIn EXCEPT ![s] = in1]
            /\ curOut' = [curOut EXCEPT ![s] = out1]
  /\ IF m.audio > 0 /\ outputAudioContextRef # 0
       THEN /\ nextStartTimeRef' = Max(nextStartTimeRef, clock)
            /\ segs' = Append(segs, [st |-> "decoding", dur |-> m.audio, intr |-> m.intr,
                                     ctx |-> outputAudioContextRef, start |-> -1])
            /\ playingSources' = playingSources
       ELSE IF m.intr
         THEN InterruptedClear(segs, playingSources)
         ELSE UNCHANGED <<segs, playingSources, nextStartTimeRef>>
  /\ UNCHANGED <<panel, reqVars, framesSent, frameVars, mounted, isLive, error, sessionPromiseRef, streamRef,
                 audioContextRef, scriptProcessorRef, sourceRef, outputAudioContextRef,
                 intervalRef, nsess, ws, closeReq, gum, track, capCtx, outCtx,
                 procConn, srcConn, timer, clock>>

\* the render that applies the queued updaters, in the order they were queued
Render ==
  /\ panel = "voice"
  /\ mounted
  /\ pendingTx # <<>>
  /\ transcriptions' = transcriptions \o [k \in 1..Len(pendingTx) |-> UpdaterEntry(pendingTx[k].sess)]
  /\ pendingTx' = <<>>
  /\ UNCHANGED <<panel, reqVars, framesSent, frameVars, mounted, isLive, error, sessionPromiseRef, streamRef,
                 audioContextRef, scriptProcessorRef, sourceRef, outputAudioContextRef,
                 nextStartTimeRef, playingSources, intervalRef, nsess, ws, closeReq,
                 gum, track, capCtx, outCtx, procConn, srcConn, timer, curIn, curOut,
                 segs, nmsg, clock>>

\* a segment that is tracked without being started
StartSourceSkipped(sg, k) == sg

\* source.start(nextStartTimeRef.current) of segment k
StartSource(sg, k) ==
  [sg EXCEPT ![k] = [st |-> "playing", dur |-> sg[k].dur, intr |-> sg[k].intr,
                     ctx |-> sg[k].ctx, start |-> nextStartTimeRef]]

\* onmessage after await decodeAudioData resolved, for segment k
VoiceDecoded(k) ==
  /\ panel = "voice"
  /\ k \in DOMAIN segs
  /\ segs[k].st = "decoding"
  /\ IF segs[k].intr
       THEN InterruptedClear(StartSource(segs, k), playingSources \cup {k})
       ELSE /\ segs' = StartSource(segs, k)
            /\ nextStartTimeRef' = nextStartTimeRef + segs[k].dur
            /\ playingSources' = playingSources \cup {k}
  /\ UNCHANGED <<panel, reqVars, framesSent, frameVars, mounted, isLive, error, transcriptions, pendingTx, sessionPromiseRef,
                 streamRef, audioContextRef, scriptProcessorRef, sourceRef,
                 outputAudioContextRef, intervalRef, nsess, ws, closeReq, gum, track,
                 capCtx, outCtx, procConn, srcConn, timer, curIn, curOut, nmsg, clock>>

\* source.onended of segment k, once the output clock passed its end
VoiceSourceEnded(k) ==
  /\ panel = "voice"
  /\ k \in DOMAIN segs
  /\ segs[k].st = "playing"
  /\ segs[k].ctx = outputAudioContextRef
  /\ outCtx[segs[k].ctx] = "running"
  /\ clock >= segs[k].start + segs[k].dur
  /\ segs' = [segs EXCEPT ![k].st = "ended"]
  /\ playingSources' = playingSources \ {k}
  /\ UNCHANGED <<panel, reqVars, framesSent, frameVars, mounted, isLive, error, transcriptions, pendingTx, sessionPromiseRef,
                 streamRef, audioContextRef, scriptProcessorRef, sourceRef,
                 outputAudioContextRef, nextStartTimeRef, intervalRef, nsess, ws,
                 closeReq, gum, track, capCtx, outCtx, procConn, srcConn, timer,
                 curIn, curOut, nmsg, clock>>

\* the output context's currentTime advances while the context runs
Tick ==
  /\ outputAudioContextRef # 0
  /\ outCtx[outputAudioContextRef] = "running"
  /\ clock < MaxClock
  /\ clock' = clock + 1
  /\ UNCHANGED <<panel, reqVars, framesSent, frameVars, mounted, compVars, nsess, ws, closeReq, gum, track, capCtx,
                 outCtx, procConn, srcConn, timer, curIn, curOut, segs, nmsg>>

\* a call of stopConversation from the button or a caller of the operation
VoiceStop ==
  /\ stopConversation(ws)
  /\ UNCHANGED <<voiceRest, mounted, error, transcriptions, pendingTx, nsess, gum>>

\* onClick={isLive ? stopConversation : startConversation}
VoiceClickStart(thrown) ==
  /\ panel = "voice" /\ mounted /\ ~isLive
  /\ startConversation(thrown)

VoiceClickStop ==
  /\ panel = "voice" /\ mounted /\ isLive
  /\ VoiceStop

\* useEffect(() => { return () => stopConversation() }, [stopConversation])
VoiceUnmount ==
  /\ panel = "voice" /\ mounted
  /\ mounted' = FALSE
  /\ stopConversation(ws)
  /\ UNCHANGED <<voiceRest, error, transcriptions, pendingTx, nsess, gum>>

\* ------------------------------------------------------ VisualAssistant
\* stopSession, run on the connection states w, the stream reference sref and
\* the track states trk the caller leaves
stopSession(w, sref, trk) ==
  /\ timer' = IF intervalRef # 0 THEN [timer EXCEPT ![intervalRef] = FALSE] ELSE timer
  /\ ws' = ChainClose(w, sessionPromiseRef)
  /\ closeReq' = IF sessionPromiseRef # 0
                   THEN [closeReq EXCEPT ![sessionPromiseRef] = TRUE]
                   ELSE closeReq
  /\ track' = StopTracks(trk, sref)
  /\ streamRef' = sref
  /\ procConn' = IF scriptProcessorRef # 0
                   THEN [procConn EXCEPT ![scriptProcessorRef] = FALSE]
                   ELSE procConn
  /\ capCtx' = CloseCtx(capCtx, audioContextRef)
  /\ isLive' = FALSE
  /\ UNCHANGED <<sessionPromiseRef, audioContextRef, scriptProcessorRef, intervalRef>>

\* what no VisualAssistant handler touches
visualRest == <<panel, reqVars, framesSent, frameVars, transcriptions, pendingTx, sourceRef, outputAudioContextRef,
                nextStartTimeRef, playingSources, outCtx, curIn, curOut, segs, nmsg,
                clock>>

\* startSession up to await getUserMedia
startSession ==
  /\ nsess < MaxSessions
  /\ isLive' = TRUE
  /\ error' = "null"
  /\ nsess' = nsess + 1
  /\ gum' = [gum EXCEPT ![nsess + 1] = "pending"]
  /\ UNCHANGED <<visualRest, mounted, sessionPromiseRef, streamRef, audioContextRef,
                 scriptProcessorRef, intervalRef, ws, closeReq, track, capCtx,
                 procConn, srcConn, timer>>

\* startSession after await getUserMedia resolved; thrown: the constructor of
\* the client throws and the catch block runs
VisualGumGranted(s, thrown) ==
  /\ panel = "visual"
  /\ gum[s] = "pending"
  /\ gum' = [gum EXCEPT ![s] = "granted"]
  /\ IF thrown
       THEN /\ error' = "exception"
            /\ stopSession(ws, s, [track EXCEPT ![s] = "live"])
       ELSE /\ streamRef' = s
            /\ track' = [track EXCEPT ![s] = "live"]
            /\ sessionPromiseRef' = s
            /\ ws' = [ws EXCEPT ![s] = "connecting"]
            /\ UNCHANGED <<isLive, error, audioContextRef, scriptProcessorRef,
                           intervalRef, closeReq, capCtx, procConn, timer>>
  /\ UNCHANGED <<visualRest, mounted, nsess, srcConn>>

\* await getUserMedia rejected: the catch block runs
VisualGumDenied(s) ==
  /\ panel = "visual"
  /\ gum[s] = "pending"
  /\ gum' = [gum EXCEPT ![s] = "denied"]
  /\ error' = "exception"
  /\ stopSession(ws, streamRef, track)
  /\ UNCHANGED <<visualRest, mounted, nsess, srcConn>>

\* callbacks.onopen, then the connect promise resolves and a close chained on
\* it by an earlier stop runs
VisualOnOpen(s) ==
  /\ panel = "visual"
  /\ ws[s] = "connecting"
  /\ audioContextRef' = s
  /\ capCtx' = [capCtx EXCEPT ![s] = "running"]
  /\ scriptProcessorRef' = s
  /\ srcConn' = [srcConn EXCEPT ![s] = TRUE]
  /\ procConn' = [procConn EXCEPT ![s] = TRUE]
  /\ intervalRef' = s
  /\ timer' = [timer EXCEPT ![s] = TRUE]
  /\ ws' = [ws EXCEPT ![s] = IF closeReq[s] THEN "aborted" ELSE "open"]
  /\ UNCHANGED <<visualRest, mounted, isLive, error, sessionPromiseRef, streamRef,
                 nsess, closeReq, gum, track>>

\* callbacks.onerror
VisualOnError(s) ==
  /\ panel = "visual"
  /\ ws[s] \in {"connecting", "open", "closing", "aborted"}
  /\ error' = "error event"
  /\ stopSession([ws EXCEPT ![s] = "failed"], streamRef, track)
  /\ UNCHANGED <<visualRest, mounted, nsess, gum, srcConn>>

\* callbacks.onclose
VisualOnClose(s) ==
  /\ panel = "visual"
  /\ ws[s] \in {"open", "closing", "aborted", "failed"}
  /\ stopSession(Closed(ws, s), streamRef, track)
  /\ UNCHANGED <<visualRest, mounted, error, nsess, gum, srcConn>>

\* a call of stopSession from the button or a caller of the operation
VisualStop ==
  /\ stopSession(ws, streamRef, track)
  /\ UNCHANGED <<visualRest, mounted, error, nsess, gum, srcConn>>

\* onClick={isLive ? stopSession : startSession}
VisualClickStart ==
  /\ panel = "visual" /\ mounted /\ ~isLive
  /\ startSession

VisualClickStop ==
  /\ panel = "visual" /\ mounted /\ isLive
  /\ VisualStop

\* useEffect(() => () => stopSession(), [stopSession])
VisualUnmount ==
  /\ panel = "visual" /\ mounted
  /\ mounted' = FALSE
  /\ stopSession(ws, streamRef, track)
  /\ UNCHANGED <<visualRest, error, nsess, gum, srcConn>>

\* ------------------------------------------------------- outbound frames
\* a sample x of the capture buffer is kept as the integer 2 * 32768 * x, so
\* that x * 32768 is half of it; -1.0 <= x <= 1.0
FullScale == 32768

Samples == (0 - 2 * FullScale)..(2 * FullScale)

\* Float32Array.map(x => x * 32768) followed by the truncation toward zero
\* that the conversion to an integer starts with
Scaled(n) == IF n >= 0 THEN n \div 2 ELSE 0 - ((0 - n) \div 2)

\* new Int16Array(floats): every element is converted modulo 2^16 into
\* -32768..32767
ToInt16(v) == ((v + FullScale) % (2 * FullScale)) - FullScale

\* new Int16Array(inputData.map(x => x * 32768))
EncodePcm(frame) == [i \in DOMAIN frame |-> ToInt16(Scaled(frame[i]))]

MaxFrames == 2     \* frames sent per behaviour

\* sessionPromiseRef.current?.then(session => session.sendRealtimeInput(..))
\* reaches a session when the ref holds one that is open
Sendable == sessionPromiseRef # 0 /\ ws[sessionPromiseRef] = "open"

\* onaudioprocess of the processor of attempt s, given the frame: it fires
\* while the processor is connected in a running context
AudioProcess(s, frame) ==
  /\ procConn[s]
  /\ capCtx[s] = "running"
  /\ inputData' = frame
  /\ pcmData' = EncodePcm(frame)
  /\ IF Sendable
       THEN framesSent < MaxFrames /\ framesSent' = framesSent + 1
       ELSE framesSent' = framesSent
  /\ UNCHANGED <<panel, reqVars, mounted, compVars, nsess, ws, closeReq, gum, track,
                 capCtx, outCtx, procConn, srcConn, timer, curIn, curOut, segs, nmsg,
                 clock>>

VoiceAudioProcess(s, frame) == panel = "voice" /\ AudioProcess(s, frame)

VisualAudioProcess(s, frame) == panel = "visual" /\ AudioProcess(s, frame)

\* the interval callback of attempt s whose frame reaches a session; the
\* video and canvas elements exist while the panel is mounted
VisualFrameTimer(s) ==
  /\ panel = "visual"
  /\ timer[s]
  /\ mounted
  /\ Sendable
  /\ framesSent < MaxFrames
  /\ framesSent' = framesSent + 1
  /\ UNCHANGED <<panel, reqVars, frameVars, mounted, compVars, nsess, ws, closeReq, gum,
                 track, capCtx, outCtx, procConn, srcConn, timer, curIn, curOut, segs,
                 nmsg, clock>>

\* ------------------------------------------------------- specifications
\* lifecycle callbacks of the environment, the same however the user acts
Callbacks ==
  \/ \E s \in Sessions : VoiceOnOpen(s)
  \/ \E s \in Sessions : VoiceGumGranted(s)
  \/ \E s \in Sessions : VoiceGumDenied(s)
  \/ \E s \in Sessions : VoiceOnError(s)
  \/ \E s \in Sessions : VoiceOnClose(s)
  \/ \E k \in 1..MaxMsgs : VoiceDecoded(k)
  \/ \E s \in Sessions, thrown \in BOOLEAN : VisualGumGranted(s, thrown)
  \/ \E s \in Sessions : VisualGumDenied(s)
  \/ \E s \in Sessions : VisualOnOpen(s)
  \/ \E s \in Sessions : VisualOnError(s)
  \/ \E s \in Sessions : VisualOnClose(s)

\* the one plain audio message the lifecycle specifications deliver, so that
\* a stop can find a source decoding or playing
LifeMessage(s) ==
  /\ nmsg = 0
  /\ VoiceOnMessage(s, Msg(FALSE, FALSE, FALSE, 1, FALSE))

\* Spec: the lifecycle of either panel as rendered (the one button, the
\* unmount, every callback), with one plain audio message
Next ==
  \/ \E thrown \in BOOLEAN : VoiceClickStart(thrown)
  \/ VoiceClickStop
  \/ VoiceUnmount
  \/ VisualClickStart
  \/ VisualClickStop
  \/ VisualUnmount
  \/ \E s \in Sessions : LifeMessage(s)
  \/ Callbacks

Spec == Init /\ [][Next]_vars

\* the operations start() and stop() called directly, whatever is rendered
VoiceCallStart(thrown) == panel = "voice" /\ mounted /\ startConversation(thrown)

VoiceCallStop == panel = "voice" /\ VoiceStop

VisualCallStart == panel = "visual" /\ mounted /\ startSession

VisualCallStop == panel = "visual" /\ VisualStop

\* SpecApi: as Spec, and start() and stop() are also called in any state
NextApi ==
  \/ Next
  \/ \E thrown \in BOOLEAN : VoiceCallStart(thrown)
  \/ VoiceCallStop
  \/ VisualCallStart
  \/ VisualCallStop

SpecApi == Init /\ [][NextApi]_vars

\* SpecPlay: one voice-chat session with its inbound audio, the interrupted
\* marker and the output clock
InitPlay == Init /\ panel = "voice"

PlayStart == nsess = 0 /\ VoiceClickStart(FALSE)

NextPlay ==
  \/ PlayStart
  \/ VoiceClickStop
  \/ VoiceUnmount
  \/ \E s \in Sessions : VoiceOnOpen(s)
  \/ \E s \in Sessions : VoiceGumGranted(s)
  \/ \E s \in Sessions : VoiceGumDenied(s)
  \/ \E s \in Sessions : VoiceOnError(s)
  \/ \E s \in Sessions : VoiceOnClose(s)
  \/ \E s \in Sessions, m \in AudioShapes : VoiceOnMessage(s, m)
  \/ \E k \in 1..MaxMsgs : VoiceDecoded(k)
  \/ \E k \in 1..MaxMsgs : VoiceSourceEnded(k)
  \/ Tick

SpecPlay == InitPlay /\ [][NextPlay]_vars

\* SpecText: the voice-chat panel with the transcription messages and the
\* renders that apply the queued transcript updaters; the client and the
\* output context are constructed without an exception and the permission
\* prompt of getUserMedia stays unanswered
InitText == panel = "voice" /\ Unstarted /\ NoFrame

TextStart == VoiceClickStart(FALSE)

NextText ==
  \/ TextStart
  \/ VoiceClickStop
  \/ VoiceUnmount
  \/ \E s \in Sessions : VoiceOnOpen(s)
  \/ \E s \in Sessions : VoiceOnError(s)
  \/ \E s \in Sessions : VoiceOnClose(s)
  \/ \E s \in Sessions, m \in TextShapes : VoiceOnMessage(s, m)
  \/ Render

SpecText == InitText /\ [][NextText]_vars

\* SpecSend: the lifecycle of either panel with the frames its processors
\* and its frame timer send; the captured frames are silence
SilentFrame == <<0>>

NextSend ==
  \/ \E thrown \in BOOLEAN : VoiceClickStart(thrown)
  \/ VoiceClickStop
  \/ VoiceUnmount
  \/ VisualClickStart
  \/ VisualClickStop
  \/ VisualUnmount
  \/ \E s \in Sessions : VoiceOnOpen(s)
  \/ \E s \in Sessions : VoiceGumGranted(s)
  \/ \E s \in Sessions : VoiceGumDenied(s)
  \/ \E s \in Sessions : VoiceOnError(s)
  \/ \E s \in Sessions : VoiceOnClose(s)
  \/ \E s \in Sessions, thrown \in BOOLEAN : VisualGumGranted(s, thrown)
  \/ \E s \in Sessions : VisualGumDenied(s)
  \/ \E s \in Sessions : VisualOnOpen(s)
  \/ \E s \in Sessions : VisualOnError(s)
  \/ \E s \in Sessions : VisualOnClose(s)
  \/ \E s \in Sessions : VoiceAudioProcess(s, SilentFrame)
  \/ \E s \in Sessions : VisualAudioProcess(s, SilentFrame)
  \/ \E s \in Sessions : VisualFrameTimer(s)

SpecSend == Init /\ [][NextSend]_vars

\* SpecPcm: one session of either panel up to the first frame its processor
\* is given, for every sample value
PcmStart == nsess = 0 /\ (VoiceClickStart(FALSE) \/ VisualClickStart)

FirstFrame ==
  /\ pcmData = <<>>
  /\ \E s \in Sessions, x \in Samples :
       VoiceAudioProcess(s, <<x>>) \/ VisualAudioProcess(s, <<x>>)

NextPcm ==
  \/ PcmStart
  \/ \E s \in Sessions : VoiceOnOpen(s)
  \/ \E s \in Sessions : VoiceGumGranted(s)
  \/ \E s \in Sessions : VisualGumGranted(s, FALSE)
  \/ \E s \in Sessions : VisualOnOpen(s)
  \/ FirstFrame

SpecPcm == Init /\ [][NextPcm]_vars

\* ----------------------------------------------- request/response panels
\* Chatbot, TextTools, ImageTools, VideoTools and TranslateTool: one of them
\* is rendered per behaviour.  input stands for the text the panel needs
\* (Chatbot input, the tools' prompt, TranslateTool sourceText) not being
\* blank; a request is in flight from its await until it settles
MaxInFlight == 2   \* requests in flight at once

MaxTexts == 2      \* distinct recognised texts

MaxChunks == 2     \* chunks of one streamed answer

MaxSends == 2      \* chat sends of one behaviour

ReqPanels == {"chat", "text", "image", "video", "translate"}

SubTools == {"generate", "analyze"}

Languages == {"es", "fr"}

Texts == 1..MaxTexts

Chunks == 1..MaxChunks

\* what the request/response panels do not have
liveVars == <<framesSent, frameVars, mounted, isLive, transcriptions, pendingTx, sessionPromiseRef, streamRef,
              audioContextRef, scriptProcessorRef, sourceRef, outputAudioContextRef,
              nextStartTimeRef, playingSources, intervalRef, nsess, ws, closeReq,
              gum, track, capCtx, outCtx, procConn, srcConn, timer, curIn, curOut,
              segs, nmsg, clock>>

\* what Chatbot, the tool panels and TranslateTool each do not have
chatRest == <<panel, liveVars, isRecording, targetLang, activeTool, sourceText, result,
              lastReq>>

toolRest == <<panel, liveVars, isRecording, targetLang, sourceText, lastReq, messages,
              chatRef>>

translateRest == <<panel, liveVars, activeTool, messages, chatRef>>

\* one call of a handler up to its await: the values its closure holds (the
\* text, the target language, the sub-tool), the chunks its stream has
\* yielded and its accumulatedText, the message list it was called on, and
\* where it is suspended ("frames": the frame extraction of analyzeVideo,
\* "remote": the remote call, "hung": a promise nothing resolves)
Req(text, lang, tool, before, phase) ==
  [text |-> text, lang |-> lang, tool |-> tool, chunks |-> <<>>, acc |-> <<>>,
   before |-> before, phase |-> phase]

\* what the response to a request shows
Answer(text, lang, tool) == [text |-> text, lang |-> lang, tool |-> tool]

AnswerTo(r) == Answer(r.text, r.lang, r.tool)

Remove(seq, i) == SubSeq(seq, 1, i - 1) \o SubSeq(seq, i + 1, Len(seq))

\* setIsLoading(true); setError(null); ... await <the remote call>
SendRequest(req) ==
  /\ inFlight < MaxInFlight
  /\ isLoading' = TRUE
  /\ error' = "null"
  /\ inFlight' = inFlight + 1
  /\ outstanding' = Append(outstanding, req)

\* the awaited call of request i settles: catch { setError(e.message) }
\* finally { setIsLoading(false) }
RequestSettles(i, ok) ==
  /\ i \in DOMAIN outstanding
  /\ outstanding[i].phase # "hung"
  /\ ok => outstanding[i].phase = "remote"
  /\ outstanding' = Remove(outstanding, i)
  /\ inFlight' = inFlight - 1
  /\ error' = IF ok THEN error ELSE "exception"
  /\ isLoading' = FALSE

\* onChange of the text field: the user enters some text
TypeInput(p) ==
  /\ panel = p
  /\ input' = TRUE
  /\ UNCHANGED <<panel, liveVars, error, isLoading, inFlight, isRecording, targetLang,
                 activeTool, outstanding, sourceText, result, lastReq, messages,
                 chatRef>>

\* Chatbot, the effect after the first render: chatRef.current =
\* ai.chats.create(...), or catch (e) { setError(e.message) }
ChatMount(thrown) ==
  /\ panel = "chat"
  /\ chatRef = "none"
  /\ chatRef' = IF thrown THEN "null" ELSE "chat"
  /\ error' = IF thrown THEN "exception" ELSE error
  /\ UNCHANGED <<chatRest, isLoading, inFlight, input, outstanding, messages>>

\* Chatbot: the input field is disabled while isLoading
ChatType == chatRef # "none" /\ ~isLoading /\ TypeInput("chat")

UserMessage == [role |-> "user", text |-> <<"input">>]

ModelMessage(text) == [role |-> "model", text |-> text]

\* Chatbot.handleSend, from the send button or the Enter key
ChatSend ==
  /\ panel = "chat"
  /\ chatRef # "none"
  /\ IF ~input \/ isLoading \/ chatRef # "chat"
       THEN UNCHANGED vars
       ELSE /\ Len(messages) < 2 * MaxSends
            /\ SendRequest(Req(1, targetLang, activeTool, messages, "remote"))
            /\ messages' = messages \o <<UserMessage, ModelMessage(<<>>)>>
            /\ input' = FALSE
            /\ UNCHANGED <<chatRest, chatRef>>

\* a chunk handler that keeps only the last chunk
ChatChunkReplaces(i, c) ==
  /\ panel = "chat"
  /\ i \in DOMAIN outstanding
  /\ Len(outstanding[i].chunks) < MaxChunks
  /\ outstanding' = [outstanding EXCEPT ![i].chunks = Append(@, c), ![i].acc = <<c>>]
  /\ messages' = [messages EXCEPT ![Len(messages)] = ModelMessage(<<c>>)]
  /\ UNCHANGED <<chatRest, chatRef, error, isLoading, inFlight, input>>

\* for await (const chunk of stream): accumulatedText += chunk.text, and the
\* last message is replaced by the model message with accumulatedText
ChatChunk(i, c) ==
  /\ panel = "chat"
  /\ i \in DOMAIN outstanding
  /\ Len(outstanding[i].chunks) < MaxChunks
  /\ outstanding' = [outstanding EXCEPT ![i].chunks = Append(@, c),
                                        ![i].acc = @ \o <<c>>]
  /\ messages' = [messages EXCEPT
                    ![Len(messages)] = ModelMessage(outstanding[i].acc \o <<c>>)]
  /\ UNCHANGED <<chatRest, chatRef, error, isLoading, inFlight, input>>

\* the stream ends, or sendMessageStream or the stream throws:
\* setMessages(prev => prev.slice(0, -1))
ChatSettles(i, ok) ==
  /\ panel = "chat"
  /\ RequestSettles(i, ok)
  /\ messages' = IF ok THEN messages ELSE SubSeq(messages, 1, Len(messages) - 1)
  /\ UNCHANGED <<chatRest, chatRef, input>>

\* handleSubmit of a tool panel past its guard: the results are cleared and
\* the request is sent
ToolSubmit(phase) ==
  /\ SendRequest(Req(1, targetLang, activeTool, <<>>, phase))
  /\ result' = <<>>
  /\ UNCHANGED <<toolRest, input, activeTool>>

\* the response to request i: the result is set from it
ToolSettles(i, ok) ==
  /\ RequestSettles(i, ok)
  /\ result' = IF ok THEN <<AnswerTo(outstanding[i])>> ELSE result
  /\ UNCHANGED <<toolRest, input, activeTool>>

TextType == TypeInput("text")

\* TextTools.handleSubmit
TextSubmit ==
  /\ panel = "text"
  /\ IF ~input \/ isLoading
       THEN UNCHANGED vars
       ELSE ToolSubmit("remote")

\* TextTools: a tool button, then the effect on activeTool
TextSwitchTool(t) ==
  /\ panel = "text"
  /\ t # activeTool
  /\ activeTool' = t
  /\ input' = FALSE
  /\ result' = <<>>
  /\ error' = "null"
  /\ UNCHANGED <<toolRest, isLoading, inFlight, outstanding>>

TextSettles(i, ok) == panel = "text" /\ ToolSettles(i, ok)

ImageType == TypeInput("image")

\* ImageTools.handleSubmit from its button, which is disabled while isLoading
ImageSubmit ==
  /\ panel = "image"
  /\ ~isLoading
  /\ IF ~input
       THEN /\ error' = "required"
            /\ UNCHANGED <<panel, liveVars, reqVars>>
       ELSE ToolSubmit("remote")

\* the effect on activeTool of ImageTools and of VideoTools
ToolChanged(t) ==
  /\ t # activeTool
  /\ activeTool' = t
  /\ input' = FALSE
  /\ result' = <<>>
  /\ error' = "null"
  /\ isLoading' = FALSE
  /\ UNCHANGED <<toolRest, inFlight, outstanding>>

ImageSwitchTool(t) == panel = "image" /\ ToolChanged(t)

ImageSettles(i, ok) == panel = "image" /\ ToolSettles(i, ok)

VideoType == TypeInput("video")

\* VideoTools.handleSubmit: generateVideo awaits the remote operation,
\* analyzeVideo first awaits the frames of the file
VideoSubmit ==
  /\ panel = "video"
  /\ IF ~input \/ isLoading
       THEN UNCHANGED vars
       ELSE ToolSubmit(IF activeTool = "analyze" THEN "frames" ELSE "remote")

\* VideoTools.extendVideo from its button, shown under a generated video and
\* disabled while isLoading
VideoExtend ==
  /\ panel = "video"
  /\ ~isLoading
  /\ result # <<>>
  /\ result[1].tool = "generate"
  /\ SendRequest(Req(1, targetLang, result[1].tool, <<>>, "remote"))
  /\ UNCHANGED <<toolRest, input, activeTool, result>>

\* analyzeVideo: canvas.toBlob calls back with the blob of a frame, or with
\* null; the promise is resolved only `if (blob)`
VideoToBlob(i, blob) ==
  /\ panel = "video"
  /\ i \in DOMAIN outstanding
  /\ outstanding[i].phase = "frames"
  /\ outstanding' = [outstanding EXCEPT ![i].phase = IF blob THEN "remote" ELSE "hung"]
  /\ UNCHANGED <<toolRest, input, activeTool, result, error, isLoading, inFlight>>

VideoSwitchTool(t) == panel = "video" /\ ToolChanged(t)

VideoSettles(i, ok) == panel = "video" /\ ToolSettles(i, ok)

\* an effect that does not look at isRecording
TranslateEffectWhileRecording(rec, txt, lang) ==
  IF txt # 0
    THEN /\ SendRequest(Req(txt, lang, activeTool, <<>>, "remote"))
         /\ lastReq' = <<Answer(txt, lang, activeTool)>>
    ELSE UNCHANGED <<isLoading, error, inFlight, outstanding, lastReq>>

\* the effect on [isRecording, sourceText, handleTranslate] with the values
\* rec, txt and lang of the render it follows: it calls handleTranslate(txt),
\* which has no guard on isLoadingTranslation
TranslateEffect(rec, txt, lang) ==
  IF ~rec /\ txt # 0
    THEN /\ SendRequest(Req(txt, lang, activeTool, <<>>, "remote"))
         /\ lastReq' = <<Answer(txt, lang, activeTool)>>
    ELSE UNCHANGED <<isLoading, error, inFlight, outstanding, lastReq>>

\* TranslateTool.handleToggleRecording while not recording
TranslateStartRecording ==
  /\ panel = "translate"
  /\ ~isRecording
  /\ isRecording' = TRUE
  /\ input' = FALSE
  /\ sourceText' = 0
  /\ result' = <<>>
  /\ lastReq' = <<>>
  /\ error' = "null"
  /\ UNCHANGED <<translateRest, isLoading, inFlight, targetLang, outstanding>>

\* recognition.onresult while recording: setSourceText
TranslateResult(t) ==
  /\ panel = "translate"
  /\ isRecording
  /\ input' = TRUE
  /\ sourceText' = t
  /\ TranslateEffect(TRUE, t, targetLang)
  /\ UNCHANGED <<translateRest, isRecording, targetLang, result>>

\* recognition.onend: setIsRecording(false), then the effect
TranslateRecordingEnds ==
  /\ panel = "translate"
  /\ isRecording
  /\ isRecording' = FALSE
  /\ TranslateEffect(FALSE, sourceText, targetLang)
  /\ UNCHANGED <<translateRest, input, sourceText, targetLang, result>>

\* recognition.onerror: setError unless 'no-speech', setIsRecording(false),
\* then the effect, whose handleTranslate does setError(null)
TranslateRecognitionError(nospeech) ==
  /\ panel = "translate"
  /\ isRecording
  /\ isRecording' = FALSE
  /\ IF sourceText # 0
       THEN TranslateEffect(FALSE, sourceText, targetLang)
       ELSE /\ error' = IF nospeech THEN error ELSE "speech"
            /\ UNCHANGED <<isLoading, inFlight, outstanding, lastReq>>
  /\ UNCHANGED <<translateRest, input, sourceText, targetLang, result>>

\* the target language select: setTargetLang gives handleTranslate a new
\* identity, so the effect runs again
TranslateSetTargetLang(l) ==
  /\ panel = "translate"
  /\ l # targetLang
  /\ targetLang' = l
  /\ TranslateEffect(isRecording, sourceText, l)
  /\ UNCHANGED <<translateRest, input, sourceText, isRecording, result>>

\* the response to request i: setTranslatedText(response.text)
TranslateSettles(i, ok) ==
  /\ panel = "translate"
  /\ RequestSettles(i, ok)
  /\ result' = IF ok THEN <<AnswerTo(outstanding[i])>> ELSE result
  /\ UNCHANGED <<translateRest, input, sourceText, isRecording, targetLang, lastReq>>

\* SpecReq: one request/response panel with its triggers and the settling of
\* its requests
InitReq == panel \in ReqPanels /\ Unstarted /\ NoFrame

Slots == 1..MaxInFlight

\* a callback or a response the platform or the remote service delivers
Returns ==
  \/ \E i \in Slots, ok \in BOOLEAN : ChatSettles(i, ok)
  \/ \E i \in Slots, ok \in BOOLEAN : TextSettles(i, ok)
  \/ \E i \in Slots, ok \in BOOLEAN : ImageSettles(i, ok)
  \/ \E i \in Slots, blob \in BOOLEAN : VideoToBlob(i, blob)
  \/ \E i \in Slots, ok \in BOOLEAN : VideoSettles(i, ok)
  \/ \E i \in Slots, ok \in BOOLEAN : TranslateSettles(i, ok)

NextReq ==
  \/ \E thrown \in BOOLEAN : ChatMount(thrown)
  \/ ChatType
  \/ ChatSend
  \/ \E i \in Slots, c \in Chunks : ChatChunk(i, c)
  \/ TextType
  \/ TextSubmit
  \/ \E t \in SubTools : TextSwitchTool(t)
  \/ ImageType
  \/ ImageSubmit
  \/ \E t \in SubTools : ImageSwitchTool(t)
  \/ VideoType
  \/ VideoSubmit
  \/ VideoExtend
  \/ \E t \in SubTools : VideoSwitchTool(t)
  \/ TranslateStartRecording
  \/ \E t \in Texts : TranslateResult(t)
  \/ TranslateRecordingEnds
  \/ \E nospeech \in BOOLEAN : TranslateRecognitionError(nospeech)
  \/ \E l \in Languages : TranslateSetTargetLang(l)
  \/ Returns

SpecReq == InitReq /\ [][NextReq]_vars

\* SpecReqFair: every remote call and every platform callback returns
SpecReqFair == SpecReq /\ WF_vars(Returns)

\* ----------------------------------------------------------------- claims
LiveTracks == {s \in Sessions : track[s] = "live"}

C2_IdleHoldsNoLiveTrack == ~isLive => LiveTracks = {}

\* a stop() call of the rendered panel
StopCall == VoiceCallStop \/ VisualCallStop

\* a stop() call that changes the state
StopChanges == StopCall /\ vars' # vars

\* the panel references no stream whose tracks are live
NoDeviceHandle == streamRef = 0 \/ track[streamRef] # "live"

StartCall == (\E thrown \in BOOLEAN : VoiceCallStart(thrown)) \/ VisualCallStart

\* C4: a start() call while the panel is live (isLive true) changes nothing:
\* no second session, no second capture request, no field of the session.
C4_StartWhileLiveIsNoOp == [][(isLive /\ StartCall) => UNCHANGED vars]_vars

\* C5: at most one live capture stream, one running capture context and one
\* open remote session per panel at any time.
C5_OneHolder ==
  /\ Cardinality(LiveTracks) <= 1
  /\ Cardinality({s \in Sessions : capCtx[s] = "running"}) <= 1
  /\ Cardinality({s \in Sessions : ws[s] = "open"}) <= 1

\* a callback of start attempt s: open acknowledgment (and its continuation
\* after getUserMedia), error event, close event
CallbackOf(s) ==
  \/ VoiceOnOpen(s) \/ VoiceGumGranted(s) \/ VoiceGumDenied(s)
  \/ VoiceOnError(s) \/ VoiceOnClose(s)
  \/ VisualOnOpen(s) \/ VisualOnError(s) \/ VisualOnClose(s)

\* C6: a callback of a start attempt after which the user started another
\* one changes neither the lifecycle state, nor the references the panel
\* holds, nor the stream, the contexts or the connection of a later attempt.
C6_StaleCallbackChangesNothing ==
  [][\A s \in Sessions : (s < nsess /\ CallbackOf(s)) =>
        /\ UNCHANGED <<isLive, sessionPromiseRef, streamRef, audioContextRef>>
        /\ \A u \in Sessions : u > s =>
             /\ track'[u] = track[u] /\ capCtx'[u] = capCtx[u]
             /\ outCtx'[u] = outCtx[u] /\ ws'[u] = ws[u]
             /\ closeReq'[u] = closeReq[u]]_vars

\* segment k has been handed to source.start
IsStarted(k) == segs[k].st # "decoding"

\* no interrupted marker and no stop() has touched a segment
Uninterrupted == \A k \in DOMAIN segs : segs[k].st # "stopped" /\ ~segs[k].intr

\* C7: with no interruption, the scheduled start times of the segments are
\* non-decreasing in arrival order, and a segment that arrived with no
\* underrun starts where its predecessor ends.
C7_StartsFollowArrival ==
  Uninterrupted =>
    \A i, j \in DOMAIN segs :
      (i < j /\ IsStarted(i) /\ IsStarted(j)) =>
        /\ segs[i].start <= segs[j].start
        /\ j = i + 1 => segs[j].start >= segs[i].start + segs[i].dur

\* C8: segments are started in arrival order: a segment is never started
\* while a segment delivered before it is still being decoded.
C8_StartedInArrivalOrder ==
  \A i, j \in DOMAIN segs : (i < j /\ IsStarted(j)) => IsStarted(i)

\* C9: the start time passed to source.start is never earlier than the
\* current time of the output context at that moment.
C9_StartNotBeforeClock ==
  [][\A k \in DOMAIN segs :
       (VoiceDecoded(k) /\ segs[k].ctx = outputAudioContextRef) =>
          segs'[k].start >= clock]_vars

\* the handler of a message carrying the interrupted marker runs to its end
InterruptedProcessed ==
  \/ \E s \in Sessions, m \in AudioShapes : m.intr /\ m.audio = 0 /\ VoiceOnMessage(s, m)
  \/ \E k \in DOMAIN segs : segs[k].intr /\ VoiceDecoded(k)

\* C10: when a message with the interrupted marker has been processed, the
\* sources that were in the set are stopped, no segment is playing, the set
\* is empty and the playback offset is zero, with or without audio in the
\* same message.
C10_InterruptedClearsPlayback ==
  [][InterruptedProcessed =>
       /\ \A k \in playingSources : segs'[k].st = "stopped"
       /\ \A k \in DOMAIN segs' : segs'[k].st # "playing"
       /\ playingSources' = {}
       /\ nextStartTimeRef' = 0]_vars

\* C10 witness: in the running session an interrupted marker has stopped a
\* segment of an earlier message, and one arrived with audio of its own
C10_Witness ==
  /\ isLive /\ playingSources = {} /\ nextStartTimeRef = 0
  /\ \E j, k \in DOMAIN segs :
       /\ segs[j].st = "stopped" /\ ~segs[j].intr
       /\ segs[k].st = "stopped" /\ segs[k].intr

\* ------------------------------------------------------------ transcript
\* a turn-complete message, and any other message, handled by attempt s
TurnMessage(s) == \E m \in TextShapes : m.turn /\ VoiceOnMessage(s, m)

OtherMessage(s) == \E m \in TextShapes : ~m.turn /\ VoiceOnMessage(s, m)

\* entries appended plus appends queued for the next render
Owed == Len(transcriptions) + Len(pendingTx)

IsPrefix(a, b) == Len(a) <= Len(b) /\ SubSeq(b, 1, Len(a)) = a

\* C11: every turn-complete message handled by the mounted panel adds
\* exactly one entry to the transcript, after the entries it already has and
\* leaving those as they are (the entry is appended at once or queued and
\* appended by the next render, which appends exactly the queued ones), and
\* leaves both buffers of its session empty; a message without the
\* turn-complete marker leaves the transcript and the queue unchanged.
C11_TurnAppendsOne ==
  [][/\ \A s \in Sessions :
          /\ TurnMessage(s) => /\ curIn'[s] = <<>> /\ curOut'[s] = <<>>
                               /\ mounted => /\ Owed' = Owed + 1
                                             /\ Len(transcriptions') \in
                                                  {Len(transcriptions), Len(transcriptions) + 1}
                                             /\ IsPrefix(transcriptions, transcriptions')
                                             /\ IsPrefix(pendingTx, pendingTx')
          /\ OtherMessage(s) => UNCHANGED <<transcriptions, pendingTx>>
     /\ Render => /\ Len(transcriptions') = Owed
                  /\ IsPrefix(transcriptions, transcriptions')
                  /\ pendingTx' = <<>>]_vars

\* one turn was appended at once and a second one is queued
C11_Witness == Len(transcriptions) = 1 /\ Len(pendingTx) = 1 /\ nmsg = 2

\* C12: the entry a turn-complete message appends holds the fragments the
\* buffers had accumulated when the message was handled, whenever the
\* queued updater is applied.
C12_EntryEqualsBuffers ==
  [][Render => \A k \in 1..Len(pendingTx) :
                 transcriptions'[Len(transcriptions) + k] =
                   [user |-> pendingTx[k].user, model |-> pendingTx[k].model]]_vars

\* C13 as stated: no step, a later start included, removes or changes an
\* entry of the transcript.
C13_AppendOnly == [][IsPrefix(transcriptions, transcriptions')]_vars

StartsConversation == \E thrown \in BOOLEAN : VoiceClickStart(thrown)

\* C13: no step other than a start removes or changes an entry of the
\* transcript: across every message, interrupted marker, stop, error, close,
\* render and unmount the earlier transcript is a prefix of the later one
\* (a start clears the transcript).
C13_AppendOnlyBetweenStarts ==
  [][~StartsConversation => IsPrefix(transcriptions, transcriptions')]_vars

\* two entries have outlived the stop and the close of their session
C13_Witness == Len(transcriptions) = 2 /\ ~isLive /\ ws[1] = "closed"

\* ---------------------------------------------------------------- errors
\* the message of a remote error event is on display
RemoteErrorShown == error \in {"Live session error", "error event"}

\* no device track is live, no audio context runs, no processor is
\* connected and no frame timer is active
Released ==
  /\ LiveTracks = {}
  /\ \A s \in Sessions : /\ capCtx[s] # "running" /\ outCtx[s] # "running"
                         /\ ~procConn[s] /\ ~timer[s]

ErrorEvent(s) == VoiceOnError(s) \/ VisualOnError(s)

CloseEvent(s) == VoiceOnClose(s) \/ VisualOnClose(s)

\* C14: a remote error event delivered to a connecting or open session
\* leaves the panel idle with the event's message on display, the close
\* event that follows neither adds nor clears a message, and while the panel
\* then sits idle with that message every resource is released.
C14_RemoteErrorEndsReleased ==
  /\ [](RemoteErrorShown /\ ~isLive => Released)
  /\ [][\A s \in Sessions :
          /\ ErrorEvent(s) => ~isLive' /\ RemoteErrorShown'
          /\ CloseEvent(s) => error' = error]_vars

\* C15: when the remote side closes an open session that nobody asked to
\* close, the panel is torn down and an error message is surfaced.
C15_UnexpectedCloseSurfacesError ==
  [][\A s \in Sessions :
       (mounted /\ ws[s] = "open" /\ CloseEvent(s)) => ~isLive' /\ error' # "null"]_vars

DeviceDenied(s) == VoiceGumDenied(s) \/ VisualGumDenied(s)

\* C16: when getUserMedia of a start attempt is rejected, an error message
\* is surfaced and the panel is stopped: it is idle, the attempt's remote
\* session is not left connecting or open, and every resource is released.
C16_DeviceFailureStops ==
  [][\A s \in Sessions :
       (mounted /\ DeviceDenied(s)) =>
         /\ error' # "null" /\ ~isLive'
         /\ ws'[s] \notin {"connecting", "open"}
         /\ Released']_vars

\* -------------------------------------------------------------- lifecycle
\* the lifecycle state of the panel: idle when isLive is false, open when the
\* session it holds has been acknowledged, connecting otherwise
Life ==
  IF ~isLive THEN "idle"
  ELSE IF sessionPromiseRef # 0 /\ ws[sessionPromiseRef] = "open" THEN "open"
  ELSE "connecting"

StartClick == (\E thrown \in BOOLEAN : VoiceClickStart(thrown)) \/ VisualClickStart

OpenEvent == \E s \in Sessions : VoiceOnOpen(s) \/ VisualOnOpen(s)

\* C17: the lifecycle enters connecting only from idle and by a start,
\* enters open only from connecting and by the open event of a session, and
\* otherwise only falls back to idle.
C17_LifecycleTransitions ==
  [][Life' # Life =>
       \/ Life' = "idle"
       \/ Life = "idle" /\ Life' = "connecting" /\ StartClick
       \/ Life = "connecting" /\ Life' = "open" /\ OpenEvent]_vars

\* C18 as stated: in either panel a start attempt has asked for the capture
\* device only if its remote session has been opened.
C18_CaptureAfterOpen ==
  \A s \in Sessions : gum[s] # "none" => ws[s] \notin {"none", "connecting"}

\* C18: in the voice-chat panel a start attempt has asked for the capture
\* device only if its remote session has been opened (acknowledged); in the
\* visual-assistant panel the order is the reverse: an attempt has requested
\* its remote session only if its capture device was granted.
C18_CaptureOrderPerPanel ==
  \A s \in Sessions :
    /\ panel = "voice" => (gum[s] # "none" => ws[s] \notin {"none", "connecting"})
    /\ panel = "visual" => (ws[s] # "none" => gum[s] = "granted")

\* the voice-chat panel is live on an open session whose microphone was granted
C18_Witness ==
  \E s \in Sessions : /\ panel = "voice" /\ isLive /\ ws[s] = "open"
                       /\ gum[s] = "granted" /\ track[s] = "live"

\* C19: once the panel is unmounted no device track is live, no audio graph
\* node is connected, every audio context is closed and the frame timer is
\* cancelled, whatever callback arrives afterwards.
C19_UnmountedHoldsNothing == ~mounted => Released

\* --------------------------------------------------------------- requests
\* C20: a request/response panel has at most one remote request in flight.
C20_OneRequestInFlight == inFlight <= 1

\* ---------------------------------------------------------------- retries
\* remote connections requested so far
Connections == {s \in Sessions : ws[s] # "none"}

\* the steps that call ai.live.connect: a start of the voice-chat panel, and
\* the continuation of a start of the visual-assistant panel
ConnectStep ==
  \/ \E thrown \in BOOLEAN : VoiceClickStart(thrown)
  \/ \E s \in Sessions : VisualGumGranted(s, FALSE)

\* C21: nothing is retried: the remote connections requested never outnumber
\* the starts the user made, a connection is requested only by a start (or
\* its continuation) and only for an attempt that had none, and no error,
\* close or permission-failure handler requests one.
C21_NoAutomaticRetry ==
  /\ [](Cardinality(Connections) <= nsess)
  /\ [][\A s \in Sessions :
          /\ (ws'[s] = "connecting" /\ ws[s] # "connecting") =>
               ws[s] = "none" /\ ConnectStep
          /\ (ErrorEvent(s) \/ CloseEvent(s) \/ DeviceDenied(s)) =>
               Connections' = Connections]_vars

\* a session ended by a remote error and its close, and the user started a
\* second one
C21_Witness == nsess = 2 /\ ws[1] = "closed" /\ RemoteErrorShown = FALSE /\ ws[2] = "connecting"

\* ------------------------------------------------------- playback tracking
\* segments whose source was started and has neither ended nor been stopped
StartedUnfinished == {k \in DOMAIN segs : segs[k].st = "playing"}

\* C22: the tracked set of sources is exactly the set of segments that were
\* started and have neither ended nor been stopped.
C22_TrackedIsStartedUnfinished == playingSources = StartedUnfinished

\* one segment has ended and left the set while another is still tracked
C22_Witness ==
  /\ playingSources # {}
  /\ \E k \in DOMAIN segs : segs[k].st = "ended"

\* C23: nothing delivered before a stop or an interrupted marker is started
\* after it: while the panel is idle the tracked set stays empty and the
\* offset zero, and the decode of a segment never completes into a start once
\* the interrupted marker of a later message has been processed.
C23_NoStartAfterClear ==
  /\ [](~isLive => playingSources = {} /\ nextStartTimeRef = 0)
  /\ [][\A k \in DOMAIN segs :
          VoiceDecoded(k) =>
            ~\E j \in DOMAIN segs : j > k /\ segs[j].intr /\ segs[j].st # "decoding"]_vars

\* ----------------------------------------------------------------- frames
\* C24: no audio frame and no video frame is sent to a remote session while
\* the panel is idle (after a stop and until the next start).
C24_NoFrameWhileIdle == [][framesSent' # framesSent => isLive]_vars

\* C25: every sample x of -1.0..1.0 is encoded as trunc(x * 32768) without
\* wrap-around, and the encoded value never has the sign opposite to x.
C25_EncodingKeepsValue ==
  \A i \in DOMAIN pcmData :
    /\ pcmData[i] = Scaled(inputData[i])
    /\ inputData[i] > 0 => pcmData[i] >= 0
    /\ inputData[i] < 0 => pcmData[i] <= 0

\* ------------------------------------------------------------ translation
\* the step sends a translation request
Issued == panel = "translate" /\ Len(outstanding') > Len(outstanding)

\* the request the step has sent
NewRequest == outstanding'[Len(outstanding')]

C27_LatestTranslationShown ==
  (panel = "translate" /\ outstanding = <<>> /\ error = "null") => result = lastReq

\* ---------------------------------------------------------------- sub-tools
\* the step is the response (or the failure) of request i
ResponseOf(i, ok) == TextSettles(i, ok) \/ ImageSettles(i, ok) \/ VideoSettles(i, ok)

\* C28: after a switch of the sub-tool of the image, video or text panel the
\* response to a request submitted under the previous sub-tool sets neither
\* the result, nor the error, nor the loading state of the panel.
C28_ResetNotUndone ==
  [][\A i \in Slots, ok \in BOOLEAN :
       (ResponseOf(i, ok) /\ outstanding[i].tool # activeTool)
         => UNCHANGED <<result, error, isLoading>>]_vars

\* --------------------------------------------------------------------- chat
\* handleSend returns at its guard
SendRefused == ~input \/ isLoading \/ chatRef # "chat"

\* the message list of a send that has streamed chunks so far
Streamed(r) == r.before \o <<UserMessage, ModelMessage(r.chunks)>>

\* C29: a send that completes without error leaves the list it was called on
\* plus the user's message plus one model message made of all the streamed
\* chunks in order; a send that fails, before or in the middle of the
\* stream, leaves the list plus the user's message only, with an error set;
\* a send with blank input, while loading or without a chat object changes
\* nothing.
C29_SendOutcome ==
  /\ [](panel = "chat" => \A i \in DOMAIN outstanding : messages = Streamed(outstanding[i]))
  /\ [][/\ \A i \in Slots :
             /\ ChatSettles(i, TRUE) =>
                  /\ messages' = Streamed(outstanding[i])
                  /\ Len(messages') = Len(outstanding[i].before) + 2
                  /\ error' = "null"
             /\ ChatSettles(i, FALSE) =>
                  /\ messages' = outstanding[i].before \o <<UserMessage>>
                  /\ error' # "null"
        /\ (ChatSend /\ SendRefused) => UNCHANGED vars
        /\ (panel = "chat" /\ SendRefused) => ~(Len(outstanding') > Len(outstanding))]_vars

\* a first send has completed with all its chunks and a second one has failed
C29_Witness ==
  /\ panel = "chat"
  /\ outstanding = <<>>
  /\ Len(messages) = 3
  /\ messages[2] = ModelMessage(<<2, 1>>)
  /\ messages[3] = UserMessage
  /\ error = "exception"

\* ------------------------------------------------------------- termination
\* C30: with every remote call and every platform callback returning, a
\* panel whose loading flag is set eventually has it cleared again, whether
\* the request succeeds, throws, or is given a null payload.
C30_LoadingEventuallyCleared == isLoading ~> ~isLoading

====
